---- MODULE Spec2Model ----
(***************************************************************************)
(* OSC 52 clipboard support (packages/core/src/lib/clipboard.ts).          *)
(*                                                                         *)
(* Strings are sequences of character codes.  Everything the functions     *)
(* write is ASCII, so a written string is also the byte sequence the       *)
(* stream receives.  An environment variable is a record: defined or not,  *)
(* and its string value.                                                   *)
(***************************************************************************)
EXTENDS Integers, Sequences, FiniteSets, TLC

VARIABLES TMUX, STY, isTTY, written, calls

vars == <<TMUX, STY, isTTY, written, calls>>

----------------------------------------------------------------------------
(* Bounds of the model *)

\* longest text passed to copyToClipboard, in characters
MaxLen == 2
\* most comma-separated fields of a TMUX value
MaxFields == 3
\* most calls of one behaviour of SpecSeq
MaxCalls == 2

----------------------------------------------------------------------------
(* Characters and literal strings of the source *)

ESC == 27
Comma == 44
\* "\x1b]52;"
OscPrefix == <<27, 93, 53, 50, 59>>
\* ";"
Semi == <<59>>
\* "\x1b\\"
ST == <<27, 92>>
\* "\x1bPtmux;"
TmuxPrefix == <<27, 80, 116, 109, 117, 120, 59>>
\* "\x1bP"
ScreenPrefix == <<27, 80>>

\* the characters texts are made of: "A", ESC, and U+00E9 (two bytes in UTF-8)
TextChars == {65, 27, 233}

RECURSIVE SeqsUpTo(_, _)
SeqsUpTo(S, n) ==
  IF n = 0 THEN {<<>>}
  ELSE LET shorter == SeqsUpTo(S, n - 1)
       IN  shorter \cup {Append(s, x) : s \in shorter, x \in S}

Texts == SeqsUpTo(TextChars, MaxLen)

\* process.stdout and a stream passed as options.stream
Streams == {"stdout", "mock"}

\* options: every field may be absent; the tests also pass capabilities
StreamOpts == {"absent", "mock"}
TargetOpts == {"absent", "c", "p", "s", "q"}
CapabilityOpts == {"absent", "true", "false"}
Options == [stream : StreamOpts, target : TargetOpts, capabilities : CapabilityOpts]

----------------------------------------------------------------------------
(* The environment *)

Unset == [defined |-> FALSE, str |-> <<>>]
Defined(s) == [defined |-> TRUE, str |-> s]

\* n one-character fields joined by commas: "", "a", "a,a", "a,a,a", ...
RECURSIVE JoinFields(_)
JoinFields(n) ==
  IF n = 0 THEN <<>>
  ELSE IF n = 1 THEN <<97>>
  ELSE JoinFields(n - 1) \o <<44, 97>>

TmuxValues == {Unset} \cup {Defined(JoinFields(n)) : n \in 0..MaxFields}
StyValues == {Unset} \cup {Defined(JoinFields(n)) : n \in 0..2}

\* JavaScript truthiness of process.env[name]: undefined and "" are falsy
Truthy(v) == v.defined /\ Len(v.str) > 0

----------------------------------------------------------------------------
(* Buffer.from(text).toString("base64") *)

\* UTF-8 encoding of one code point below U+10000
Utf8Char(cp) ==
  IF cp < 128 THEN <<cp>>
  ELSE IF cp < 2048 THEN <<192 + (cp \div 64), 128 + (cp % 64)>>
  ELSE <<224 + (cp \div 4096), 128 + ((cp \div 64) % 64), 128 + (cp % 64)>>

RECURSIVE Utf8(_)
Utf8(text) ==
  IF text = <<>> THEN <<>> ELSE Utf8Char(Head(text)) \o Utf8(Tail(text))

\* the base64 alphabet A-Z a-z 0-9 + /
Base64Char(i) ==
  IF i < 26 THEN 65 + i
  ELSE IF i < 52 THEN 97 + (i - 26)
  ELSE IF i < 62 THEN 48 + (i - 52)
  ELSE IF i = 62 THEN 43
  ELSE 47

Base64Identity(bytes) == bytes

RECURSIVE Base64(_)
Base64(bytes) ==
  IF Len(bytes) = 0 THEN <<>>
  ELSE IF Len(bytes) = 1 THEN
    <<Base64Char(bytes[1] \div 4), Base64Char((bytes[1] % 4) * 16), 61, 61>>
  ELSE IF Len(bytes) = 2 THEN
    <<Base64Char(bytes[1] \div 4),
      Base64Char((bytes[1] % 4) * 16 + (bytes[2] \div 16)),
      Base64Char((bytes[2] % 16) * 4), 61>>
  ELSE
    <<Base64Char(bytes[1] \div 4),
      Base64Char((bytes[1] % 4) * 16 + (bytes[2] \div 16)),
      Base64Char((bytes[2] % 16) * 4 + (bytes[3] \div 64)),
      Base64Char(bytes[3] % 64)>> \o Base64(SubSeq(bytes, 4, Len(bytes)))

----------------------------------------------------------------------------
(* Building the sequence *)

StreamOf(options) == IF options.stream = "absent" THEN "stdout" ELSE options.stream

TargetOf(options) == IF options.target = "absent" THEN "c" ELSE options.target

TargetCode(target) ==
  CASE target = "c" -> 99
    [] target = "p" -> 112
    [] target = "s" -> 115
    [] target = "q" -> 113

\* `\x1b]52;${target};${base64}\x1b\\`
Osc52(target, base64) == OscPrefix \o <<TargetCode(target)>> \o Semi \o base64 \o ST

DoubleEscNone(s) == s

\* s.replace(/\x1b/g, "\x1b\x1b")
RECURSIVE DoubleEsc(_)
DoubleEsc(s) ==
  IF s = <<>> THEN <<>>
  ELSE (IF Head(s) = ESC THEN <<ESC, ESC>> ELSE <<Head(s)>>) \o DoubleEsc(Tail(s))

\* (s.match(/,/g) || []).length
RECURSIVE CountCommas(_)
CountCommas(s) ==
  IF s = <<>> THEN 0
  ELSE (IF Head(s) = Comma THEN 1 ELSE 0) + CountCommas(Tail(s))

TmuxLevelNoPlusOne(v) == CountCommas(v.str)

TmuxLevel(v) == CountCommas(v.str) + 1

\* for (let i = 0; i < tmuxLevel; i++) { double; wrap }
RECURSIVE TmuxLoop(_, _, _)
TmuxLoop(wrapped, i, tmuxLevel) ==
  IF i < tmuxLevel
  THEN TmuxLoop(TmuxPrefix \o DoubleEsc(wrapped) \o ST, i + 1, tmuxLevel)
  ELSE wrapped

ScreenWrapAsTmux(osc52) == TmuxPrefix \o DoubleEsc(osc52) \o ST

ScreenWrap(osc52) == ScreenPrefix \o DoubleEsc(osc52) \o ST

PassthroughValidating(osc52, tmux, sty) ==
  IF Truthy(tmux) /\ CountCommas(tmux.str) >= 2 THEN TmuxLoop(osc52, 0, TmuxLevel(tmux))
  ELSE IF Truthy(tmux) THEN osc52
  ELSE IF Truthy(sty) THEN ScreenWrap(osc52)
  ELSE osc52

\* if (process.env["TMUX"]) ... else if (process.env["STY"]) ... else ...
Passthrough(osc52, tmux, sty) ==
  IF Truthy(tmux) THEN TmuxLoop(osc52, 0, TmuxLevel(tmux))
  ELSE IF Truthy(sty) THEN ScreenWrap(osc52)
  ELSE osc52

----------------------------------------------------------------------------
(* The operations *)

Call(op, text, options, result) ==
  [op |-> op, text |-> text, options |-> options,
   tmux |-> TMUX, sty |-> STY, tty |-> isTTY[StreamOf(options)],
   result |-> result]

CopyToClipboardNoGate(text, options) ==
  LET stream == StreamOf(options)
      osc52 == Osc52(TargetOf(options), Base64(Utf8(text)))
  IN  /\ written' = [written EXCEPT ![stream] = Append(@, Passthrough(osc52, TMUX, STY))]
      /\ calls' = Append(calls, Call("copy", text, options, TRUE))
      /\ UNCHANGED <<TMUX, STY, isTTY>>

CopyToClipboardWritesTwice(text, options) ==
  LET stream == StreamOf(options)
      osc52 == Osc52(TargetOf(options), Base64(Utf8(text)))
      sequence == Passthrough(osc52, TMUX, STY)
  IN  /\ IF ~isTTY[stream]
         THEN /\ written' = written
              /\ calls' = Append(calls, Call("copy", text, options, FALSE))
         ELSE /\ written' = [written EXCEPT ![stream] =
                               IF @ = <<>> THEN Append(@, sequence)
                               ELSE Append(Append(@, sequence), sequence)]
              /\ calls' = Append(calls, Call("copy", text, options, TRUE))
      /\ UNCHANGED <<TMUX, STY, isTTY>>

CopyToClipboard(text, options) ==
  LET stream == StreamOf(options)
      target == TargetOf(options)
      base64 == Base64(Utf8(text))
      osc52 == Osc52(target, base64)
      sequence == Passthrough(osc52, TMUX, STY)
  IN  /\ IF ~isTTY[stream]
         THEN /\ written' = written
              /\ calls' = Append(calls, Call("copy", text, options, FALSE))
         ELSE /\ written' = [written EXCEPT ![stream] = Append(@, sequence)]
              /\ calls' = Append(calls, Call("copy", text, options, TRUE))
      /\ UNCHANGED <<TMUX, STY, isTTY>>

ClearClipboard(options) ==
  LET stream == StreamOf(options)
      target == TargetOf(options)
      osc52 == Osc52(target, <<>>)
      sequence == Passthrough(osc52, TMUX, STY)
  IN  /\ IF ~isTTY[stream]
         THEN /\ written' = written
              /\ calls' = Append(calls, Call("clear", <<>>, options, FALSE))
         ELSE /\ written' = [written EXCEPT ![stream] = Append(@, sequence)]
              /\ calls' = Append(calls, Call("clear", <<>>, options, TRUE))
      /\ UNCHANGED <<TMUX, STY, isTTY>>

\* the function declares no parameter: an argument passed to it is ignored,
\* and every path after the TTY check returns true
IsOsc52Supported(capabilities) ==
  LET options == [stream |-> "absent", target |-> "absent", capabilities |-> capabilities]
  IN  /\ calls' = Append(calls, Call("supported", <<>>, options,
                                     IF ~isTTY["stdout"] THEN FALSE ELSE TRUE))
      /\ UNCHANGED <<TMUX, STY, isTTY, written>>

\* the host sets or deletes an environment variable between calls
SetTMUX(v) ==
  /\ TMUX' = v
  /\ TMUX' # TMUX
  /\ UNCHANGED <<STY, isTTY, written, calls>>

SetSTY(v) ==
  /\ STY' = v
  /\ STY' # STY
  /\ UNCHANGED <<TMUX, isTTY, written, calls>>

\* the host's stream becomes, or stops being, a terminal
SetIsTTY(stream, b) ==
  /\ isTTY' = [isTTY EXCEPT ![stream] = b]
  /\ isTTY' # isTTY
  /\ UNCHANGED <<TMUX, STY, written, calls>>

----------------------------------------------------------------------------
(* Spec: one call, in any environment, with any text and options *)

Init ==
  /\ TMUX \in TmuxValues
  /\ STY \in StyValues
  /\ isTTY \in [Streams -> BOOLEAN]
  /\ written = [s \in Streams |-> <<>>]
  /\ calls = <<>>

Next ==
  /\ calls = <<>>
  /\ \/ \E text \in Texts, options \in Options : CopyToClipboard(text, options)
     \/ \E options \in Options : ClearClipboard(options)
     \/ \E capabilities \in CapabilityOpts : IsOsc52Supported(capabilities)

Spec == Init /\ [][Next]_vars

----------------------------------------------------------------------------
(* SpecSeq: a sequence of calls, the environment changing between them *)

SeqTexts == {<<65>>}
SeqOptions == [stream : {"mock"}, target : {"absent", "p"}, capabilities : {"absent"}]
SeqTmuxValues == {Unset, Defined(JoinFields(2))}
SeqStyValues == {Unset, Defined(JoinFields(1))}

InitSeq ==
  /\ TMUX = Unset
  /\ STY = Unset
  /\ isTTY = [s \in Streams |-> TRUE]
  /\ written = [s \in Streams |-> <<>>]
  /\ calls = <<>>

NextSeq ==
  \/ /\ Len(calls) < MaxCalls
     /\ \/ \E text \in SeqTexts, options \in SeqOptions : CopyToClipboard(text, options)
        \/ \E options \in SeqOptions : ClearClipboard(options)
  \/ \E v \in SeqTmuxValues : SetTMUX(v)
  \/ \E v \in SeqStyValues : SetSTY(v)
  \/ \E b \in BOOLEAN : SetIsTTY("mock", b)

SpecSeq == InitSeq /\ [][NextSeq]_vars

----------------------------------------------------------------------------
(* Vocabulary of the properties *)

StartsWith(s, p) == Len(s) >= Len(p) /\ SubSeq(s, 1, Len(p)) = p

EndsWith(s, p) == Len(s) >= Len(p) /\ SubSeq(s, Len(s) - Len(p) + 1, Len(s)) = p

\* number of matches of the literal p in s (p cannot overlap itself)
CountOccurrences(s, p) ==
  Cardinality({i \in 1..Len(s) : i + Len(p) - 1 <= Len(s) /\ SubSeq(s, i, i + Len(p) - 1) = p})

EscCount(s) == Cardinality({i \in 1..Len(s) : s[i] = 27})

CommaCount(s) == Cardinality({i \in 1..Len(s) : s[i] = 44})

RECURSIVE Pow2(_)
Pow2(n) == IF n = 0 THEN 1 ELSE 2 * Pow2(n - 1)

\* value of a base64 character
B64Value(ch) ==
  IF ch >= 65 /\ ch <= 90 THEN ch - 65
  ELSE IF ch >= 97 /\ ch <= 122 THEN ch - 97 + 26
  ELSE IF ch >= 48 /\ ch <= 57 THEN ch - 48 + 52
  ELSE IF ch = 43 THEN 62
  ELSE IF ch = 47 THEN 63
  ELSE 0

IsB64Char(ch) ==
  \/ ch >= 65 /\ ch <= 90
  \/ ch >= 97 /\ ch <= 122
  \/ ch >= 48 /\ ch <= 57
  \/ ch \in {43, 47}

\* the bytes a base64 text of whole groups of four stands for
RECURSIVE B64Decode(_)
B64Decode(s) ==
  IF Len(s) < 4 THEN <<>>
  ELSE LET n == B64Value(s[1]) * 262144 + B64Value(s[2]) * 4096
                + B64Value(s[3]) * 64 + B64Value(s[4])
           b1 == n \div 65536
           b2 == (n \div 256) % 256
           b3 == n % 256
       IN  (IF s[3] = 61 THEN <<b1>>
            ELSE IF s[4] = 61 THEN <<b1, b2>>
            ELSE <<b1, b2, b3>>) \o B64Decode(SubSeq(s, 5, Len(s)))

\* a well-formed base64 text: groups of four, padding only at the very end
WellFormedB64(s) ==
  /\ Len(s) % 4 = 0
  /\ \A i \in 1..Len(s) :
       \/ IsB64Char(s[i])
       \/ s[i] = 61 /\ i >= Len(s) - 1 /\ (i = Len(s) - 1 => s[Len(s)] = 61)

\* every ESC of s is one of a pair of adjacent ESCs
RECURSIVE AllEscPaired(_)
AllEscPaired(s) ==
  IF s = <<>> THEN TRUE
  ELSE IF Head(s) = 27
       THEN Len(s) >= 2 /\ s[2] = 27 /\ AllEscPaired(SubSeq(s, 3, Len(s)))
       ELSE AllEscPaired(Tail(s))

\* one ESC for every pair of ESCs
RECURSIVE HalveEsc(_)
HalveEsc(s) ==
  IF s = <<>> THEN <<>>
  ELSE IF Head(s) = 27 /\ Len(s) >= 2 /\ s[2] = 27
       THEN <<27>> \o HalveEsc(SubSeq(s, 3, Len(s)))
       ELSE <<Head(s)>> \o HalveEsc(Tail(s))

\* what lies between the "\x1bPtmux;" prefix and the final "\x1b\\"
Inner(w) == SubSeq(w, 8, Len(w) - 2)

\* what one multiplexer forwards to the terminal outside it
Unwrap(w) == HalveEsc(Inner(w))

RECURSIVE UnwrapN(_, _)
UnwrapN(w, n) == IF n = 0 THEN w ELSE UnwrapN(Unwrap(w), n - 1)

\* the tmux transform of the specification, applied n times
RECURSIVE TmuxTimes(_, _)
TmuxTimes(s, n) ==
  IF n = 0 THEN s
  ELSE LET inner == TmuxTimes(s, n - 1)
       IN  <<27, 80, 116, 109, 117, 120, 59>> \o DoubleEsc(inner) \o <<27, 92>>

\* the target character of a call, "c" when the option is absent
CodeOf(c) ==
  CASE c.options.target \in {"absent", "c"} -> 99
    [] c.options.target = "p" -> 112
    [] c.options.target = "s" -> 115
    [] c.options.target = "q" -> 113

\* the base OSC 52 sequence of a call
BaseOf(c) ==
  <<27, 93, 53, 50, 59, CodeOf(c), 59>>
    \o (IF c.op = "copy" THEN Base64(Utf8(c.text)) ELSE <<>>)
    \o <<27, 92>>

IsWrite(c) == c.op \in {"copy", "clear"}

\* after the call c, the only thing any stream received is w, on c's stream
WroteOnly(c, w) ==
  written = [s \in Streams |-> IF s = StreamOf(c.options) THEN <<w>> ELSE <<>>]

WroteNothing == written = [s \in Streams |-> <<>>]

----------------------------------------------------------------------------
(* The properties *)

\* C1: whatever the text, the target and TMUX/STY, a copy or clear on a
\* stream whose isTTY is false returns false and writes nothing.
C1_NotTTYRejects ==
  \A i \in DOMAIN calls :
    (IsWrite(calls[i]) /\ ~calls[i].tty) => (~calls[i].result /\ WroteNothing)

C1_Witness ==
  /\ calls # <<>>
  /\ calls[1].op = "copy"
  /\ ~calls[1].tty
  /\ Truthy(calls[1].tmux)
  /\ calls[1].text # <<>>
  /\ ~calls[1].result

\* C2: with capabilities.osc52 = false passed by the caller, a copy or clear
\* returns false and writes nothing, TTY or not.
C2_CapabilityDisabledRejects ==
  \A i \in DOMAIN calls :
    (IsWrite(calls[i]) /\ calls[i].options.capabilities = "false")
      => (~calls[i].result /\ WroteNothing)

\* C3: on a TTY with neither TMUX nor STY set, a copy returns true and writes
\* exactly ESC "]52;" T ";" base64(text) ESC "\" (T is "c" by default), and a
\* clear returns true and writes the same with an empty base64 segment.
C3_BaseSequence ==
  \A i \in DOMAIN calls :
    LET c == calls[i]
        w == written[StreamOf(c.options)][1]
        b == SubSeq(w, 8, Len(w) - 2)
    IN  (IsWrite(c) /\ c.tty /\ ~Truthy(c.tmux) /\ ~Truthy(c.sty)) =>
          /\ c.result
          /\ written[StreamOf(c.options)] # <<>>
          /\ WroteOnly(c, w)
          /\ StartsWith(w, <<27, 93, 53, 50, 59, CodeOf(c), 59>>)
          /\ EndsWith(w, <<27, 92>>)
          /\ Len(w) >= 9
          /\ c.op = "copy" =>
               /\ WellFormedB64(b)
               /\ B64Decode(b) = Utf8(c.text)
          /\ c.op = "clear" => b = <<>>
          /\ (c.op = "clear" /\ c.options.target = "absent")
               => w = <<27, 93, 53, 50, 59, 99, 59, 27, 92>>

C3_Witness ==
  /\ calls # <<>>
  /\ calls[1].op = "copy"
  /\ calls[1].tty
  /\ ~Truthy(calls[1].tmux)
  /\ ~Truthy(calls[1].sty)
  /\ calls[1].text = <<233, 27>>
  /\ calls[1].options.target = "q"
  /\ written["stdout"] = <<<<27, 93, 53, 50, 59, 113, 59, 119, 54, 107, 98, 27, 92>>>>

\* C4: on a TTY with a non-empty TMUX of k commas, a copy or clear writes the
\* base sequence put through the tmux transform k + 1 times; ESC "Ptmux;"
\* then occurs exactly k + 1 times and the number of ESC bytes, 2^(k+3) - 2,
\* grows strictly with k.  With TMUX absent the transform is not applied.
C4_TmuxLevelIsCommasPlusOne ==
  \A i \in DOMAIN calls :
    LET c == calls[i]
        w == written[StreamOf(c.options)][1]
        k == CommaCount(c.tmux.str)
    IN  (IsWrite(c) /\ c.tty) =>
          /\ c.result
          /\ written[StreamOf(c.options)] # <<>>
          /\ Truthy(c.tmux) =>
               /\ WroteOnly(c, TmuxTimes(BaseOf(c), k + 1))
               /\ CountOccurrences(w, <<27, 80, 116, 109, 117, 120, 59>>) = k + 1
               /\ EscCount(w) = Pow2(k + 3) - 2
          /\ ~c.tmux.defined =>
               /\ CountOccurrences(w, <<27, 80, 116, 109, 117, 120, 59>>) = 0
               /\ ~Truthy(c.sty) => WroteOnly(c, BaseOf(c))

C4_Witness ==
  /\ calls # <<>>
  /\ calls[1].op = "copy"
  /\ calls[1].tty
  /\ calls[1].result
  /\ CommaCount(calls[1].tmux.str) = 2
  /\ calls[1].text # <<>>
  /\ CountOccurrences(written[StreamOf(calls[1].options)][1],
                      <<27, 80, 116, 109, 117, 120, 59>>) = 3

\* the TMUX value of one tmux session: socket,pid,index
SingleSession(v) ==
  /\ v.defined
  /\ CommaCount(v.str) = 2
  /\ v.str[1] # 44
  /\ v.str[Len(v.str)] # 44
  /\ \A j \in 1..(Len(v.str) - 1) : ~(v.str[j] = 44 /\ v.str[j + 1] = 44)

\* C5: inside a single tmux session (TMUX of the form socket,pid,index) the
\* nesting level is 1: the tmux transform is applied exactly once.
C5_SingleSessionIsLevelOne ==
  \A i \in DOMAIN calls :
    LET c == calls[i]
    IN  (c.op = "copy" /\ c.tty /\ SingleSession(c.tmux)) =>
          WroteOnly(c, <<27, 80, 116, 109, 117, 120, 59>>
                         \o DoubleEsc(BaseOf(c)) \o <<27, 92>>)

\* C6: on a TTY with TMUX unset and STY non-empty, a copy or clear writes
\* ESC "P" + (base sequence, every ESC doubled) + ESC "\", whatever STY
\* holds; the output starts with ESC "P", not with ESC "Ptmux;", and ends
\* with ESC "\".
C6_ScreenWrapsOnce ==
  \A i \in DOMAIN calls :
    LET c == calls[i]
        w == written[StreamOf(c.options)][1]
    IN  (IsWrite(c) /\ c.tty /\ ~Truthy(c.tmux) /\ Truthy(c.sty)) =>
          /\ c.result
          /\ WroteOnly(c, <<27, 80>> \o DoubleEsc(BaseOf(c)) \o <<27, 92>>)
          /\ StartsWith(w, <<27, 80>>)
          /\ ~StartsWith(w, <<27, 80, 116, 109, 117, 120, 59>>)
          /\ EndsWith(w, <<27, 92>>)
          /\ AllEscPaired(SubSeq(w, 3, Len(w) - 2))
          /\ HalveEsc(SubSeq(w, 3, Len(w) - 2)) = BaseOf(c)

C6_Witness ==
  /\ calls # <<>>
  /\ calls[1].op = "copy"
  /\ calls[1].tty
  /\ calls[1].result
  /\ ~calls[1].tmux.defined
  /\ CommaCount(calls[1].sty.str) = 1
  /\ calls[1].text # <<>>
  /\ StartsWith(written[StreamOf(calls[1].options)][1], <<27, 80, 27, 27, 93>>)

\* C7: isOsc52Supported returns false without capability information, true
\* when the osc52 capability is true and false when it is false, and writes
\* nothing.
C7_SupportedFollowsCapability ==
  \A i \in DOMAIN calls :
    calls[i].op = "supported" =>
      /\ calls[i].result = (calls[i].options.capabilities = "true")
      /\ WroteNothing

\* a non-empty TMUX value with fewer than the three fields socket,pid,index
Malformed(v) == Truthy(v) /\ CommaCount(v.str) < 2

\* C8 (as stated): a malformed TMUX value degrades to no nesting: the
\* unwrapped base sequence is written.
C8_MalformedDegrades ==
  \A i \in DOMAIN calls :
    LET c == calls[i]
    IN  (IsWrite(c) /\ c.tty /\ Malformed(c.tmux)) =>
          (c.result /\ WroteOnly(c, BaseOf(c)))

\* C8 (amended): a malformed TMUX value is not validated: the call returns
\* true and writes the base sequence inside commas + 1 >= 1 tmux layers, a
\* value with no comma giving exactly one layer; only an unset or empty TMUX
\* gives no tmux layer.
C8_MalformedStillWraps ==
  \A i \in DOMAIN calls :
    LET c == calls[i]
        w == written[StreamOf(c.options)][1]
        k == CommaCount(c.tmux.str)
    IN  (IsWrite(c) /\ c.tty) =>
          /\ c.result
          /\ written[StreamOf(c.options)] # <<>>
          /\ Malformed(c.tmux) =>
               /\ StartsWith(w, <<27, 80, 116, 109, 117, 120, 59, 27, 27>>)
               /\ UnwrapN(w, k + 1) = BaseOf(c)
               /\ w # BaseOf(c)
               /\ k = 0 => WroteOnly(c, <<27, 80, 116, 109, 117, 120, 59>>
                                          \o DoubleEsc(BaseOf(c)) \o <<27, 92>>)
          /\ ~Truthy(c.tmux) => ~StartsWith(w, <<27, 80, 116, 109, 117, 120, 59>>)

C8_Witness ==
  /\ calls # <<>>
  /\ calls[1].op = "clear"
  /\ calls[1].tty
  /\ calls[1].result
  /\ calls[1].tmux = Defined(<<97>>)
  /\ written[StreamOf(calls[1].options)]
       = <<<<27, 80, 116, 109, 117, 120, 59, 27, 27, 93, 53, 50, 59, 99, 59, 27, 27, 92, 27, 92>>>>

\* what a call writes, from its own text, target and environment alone
Expected(c) == Passthrough(BaseOf(c), c.tmux, c.sty)

\* the writes of the calls of cs that returned true on stream s, in call order
RECURSIVE WritesOf(_, _)
WritesOf(cs, s) ==
  IF cs = <<>> THEN <<>>
  ELSE (IF Head(cs).result /\ StreamOf(Head(cs).options) = s
        THEN <<Expected(Head(cs))>> ELSE <<>>) \o WritesOf(Tail(cs), s)

C9_SinkIsConcatenation == \A s \in Streams : written[s] = WritesOf(calls, s)

C9_CallStep ==
  Len(calls') = Len(calls) + 1 =>
    LET c == calls'[Len(calls')]
    IN  /\ TMUX' = TMUX
        /\ STY' = STY
        /\ c.tmux = TMUX
        /\ c.sty = STY
        /\ IF c.result
           THEN written' = [written EXCEPT ![StreamOf(c.options)] = Append(@, Expected(c))]
           ELSE written' = written

\* C9: over any sequence of copies and clears, the environment and the
\* stream's isTTY changing between them, a call that returns true makes
\* exactly one write and a call that returns false none, so each stream holds
\* the writes of the calls that returned true, in call order; what a call
\* writes depends on its text, target and the environment at the call only,
\* and no call changes TMUX or STY.
C9_CallsAreStateless == []C9_SinkIsConcatenation /\ [][C9_CallStep]_vars

C9_Witness ==
  /\ Len(calls) = 2
  /\ calls[1].result
  /\ calls[2].result
  /\ Truthy(calls[1].tmux)
  /\ ~Truthy(calls[2].tmux)
  /\ Truthy(calls[2].sty)
  /\ Len(written["mock"]) = 2

\* C10: at tmux depth N >= 1, every ESC between the outer ESC "Ptmux;" and
\* the final ESC "\" is one of a doubled pair; dropping the outer prefix and
\* terminator and halving the pairs gives the depth N - 1 output, and N
\* unwraps give the base sequence.
C10_UnwrapInvertsWrap ==
  \A i \in DOMAIN calls :
    LET c == calls[i]
        w == written[StreamOf(c.options)][1]
        n == CommaCount(c.tmux.str) + 1
    IN  (IsWrite(c) /\ c.tty /\ Truthy(c.tmux)) =>
          /\ written[StreamOf(c.options)] # <<>>
          /\ StartsWith(w, <<27, 80, 116, 109, 117, 120, 59>>)
          /\ EndsWith(w, <<27, 92>>)
          /\ AllEscPaired(Inner(w))
          /\ Unwrap(w) = TmuxTimes(BaseOf(c), n - 1)
          /\ n = 1 => Unwrap(w) = BaseOf(c)
          /\ n > 1 => /\ StartsWith(Unwrap(w), <<27, 80, 116, 109, 117, 120, 59>>)
                      /\ AllEscPaired(Inner(Unwrap(w)))
                      /\ CountOccurrences(Unwrap(w), <<27, 80, 116, 109, 117, 120, 59>>) = n - 1
          /\ UnwrapN(w, n) = BaseOf(c)

C10_Witness ==
  /\ calls # <<>>
  /\ calls[1].op = "copy"
  /\ calls[1].tty
  /\ calls[1].result
  /\ CommaCount(calls[1].tmux.str) = 2
  /\ 27 \in {calls[1].text[j] : j \in 1..Len(calls[1].text)}
  /\ UnwrapN(written[StreamOf(calls[1].options)][1], 3) = BaseOf(calls[1])

====
